---------------------------- MODULE Spec2Model ----------------------------
(***************************************************************************)
(* A model of the contact book of core_08_homework.py: the validated       *)
(* fields (Phone, Birthday), the Record, the AddressBook with its          *)
(* upcoming-birthdays query, the command handlers wrapped by input_error,  *)
(* and the main read-dispatch-print loop.                                  *)
(*                                                                         *)
(* A Python str is a sequence of characters; a character is a one-letter   *)
(* TLA+ string, and two characters outside ASCII are named: "sup2" is      *)
(* U+00B2 SUPERSCRIPT TWO and "ar4" is U+0664 ARABIC-INDIC DIGIT FOUR.     *)
(***************************************************************************)
EXTENDS Integers, Sequences, FiniteSets, TLC

VARIABLES
    fkind, farg, fres,                 \* a field constructor call and its result
    rec, rpre, rcall, rerr,            \* one Record, the last call on it
    data, before, line, clock, out, pc, saved   \* the session of main()

fieldVars   == <<fkind, farg, fres>>
recordVars  == <<rec, rpre, rcall, rerr>>
sessionVars == <<data, before, line, clock, out, pc, saved>>
vars        == <<fkind, farg, fres, rec, rpre, rcall, rerr,
                 data, before, line, clock, out, pc, saved>>

-----------------------------------------------------------------------------
(* Bounds of the model *)

\* the number of distinct well-formed phone numbers the inputs draw from
NumPhones == 2

-----------------------------------------------------------------------------
(* Characters and strings *)

AsciiDigits == {"0", "1", "2", "3", "4", "5", "6", "7", "8", "9"}

DigitChars == <<"0", "1", "2", "3", "4", "5", "6", "7", "8", "9">>

\* Unicode category Nd: what the regular expression \d matches in a str pattern
IsDecimalChar(c) == c \in AsciiDigits \cup {"ar4"}

\* str.isdigit for one character: the decimal digits and the characters of
\* Numeric_Type=Digit, superscript digits among them
IsDigitChar(c) == c \in AsciiDigits \cup {"ar4", "sup2"}

\* the value int() gives a decimal digit character
DigitVal(c) ==
    CASE c = "0" -> 0 [] c = "1" -> 1 [] c = "2" -> 2 [] c = "3" -> 3
      [] c = "4" -> 4 [] c = "5" -> 5 [] c = "6" -> 6 [] c = "7" -> 7
      [] c = "8" -> 8 [] c = "9" -> 9 [] c = "ar4" -> 4

\* str.isdigit: a non-empty string of digit characters
IsDigit(s) == Len(s) > 0 /\ \A i \in 1..Len(s) : IsDigitChar(s[i])

Range(s) == {s[i] : i \in 1..Len(s)}

\* str.lower on the letters the inputs use
LowerChar(c) ==
    CASE c = "A" -> "a" [] c = "B" -> "b" [] c = "D" -> "d" [] c = "E" -> "e"
      [] c = "I" -> "i" [] c = "T" -> "t" [] c = "X" -> "x" [] OTHER -> c

Lower(w) == [i \in 1..Len(w) |-> LowerChar(w[i])]

-----------------------------------------------------------------------------
(* Phone *)

PhoneLen == 10

NoError == "none"

\* Phone.__init__: the value, or the PhoneValidationError raised
Phone(value) ==
    IF Len(value) # PhoneLen
    THEN [err |-> "PhoneValidationError",
          msg |-> "Phone number must be 10 digits long", value |-> <<>>]
    ELSE IF ~IsDigit(value)
    THEN [err |-> "PhoneValidationError",
          msg |-> "Phone number must contain digits only", value |-> <<>>]
    ELSE [err |-> NoError, msg |-> "", value |-> value]

-----------------------------------------------------------------------------
(* Calendar: datetime's proleptic Gregorian dates *)

IsLeap(y) == (y % 4 = 0 /\ y % 100 # 0) \/ y % 400 = 0

DaysInMonth(y, m) ==
    IF m = 2 THEN (IF IsLeap(y) THEN 29 ELSE 28)
    ELSE IF m \in {4, 6, 9, 11} THEN 30 ELSE 31

RECURSIVE DaysBeforeMonth(_, _)
DaysBeforeMonth(y, m) ==
    IF m = 1 THEN 0 ELSE DaysBeforeMonth(y, m - 1) + DaysInMonth(y, m - 1)

\* date.toordinal: 1 for 0001-01-01
ToOrdinal(dt) ==
    LET y1 == dt.y - 1
    IN  y1 * 365 + (y1 \div 4) - (y1 \div 100) + (y1 \div 400)
          + DaysBeforeMonth(dt.y, dt.m) + dt.d

\* date.weekday: Monday is 0, Sunday is 6
Weekday(dt) == (ToOrdinal(dt) + 6) % 7

\* dt + timedelta(days=1)
NextDay(dt) ==
    IF dt.d < DaysInMonth(dt.y, dt.m) THEN [dt EXCEPT !.d = dt.d + 1]
    ELSE IF dt.m < 12 THEN [y |-> dt.y, m |-> dt.m + 1, d |-> 1]
    ELSE [y |-> dt.y + 1, m |-> 1, d |-> 1]

\* dt + timedelta(days=n), n >= 0
RECURSIVE AddDays(_, _)
AddDays(dt, n) == IF n = 0 THEN dt ELSE AddDays(NextDay(dt), n - 1)

\* the date constructor's range check (MINYEAR = 1)
IsDate(y, m, d) ==
    /\ y >= 1
    /\ m \in 1..12
    /\ d >= 1 /\ d <= DaysInMonth(y, m)

-----------------------------------------------------------------------------
(* datetime.strptime(value, "%d.%m.%Y") and strftime("%d.%m.%Y") *)

NonZeroAscii == AsciiDigits \ {"0"}

\* %d: 3[0-1]|[1-2]\d|0[1-9]|[1-9]| [1-9]
DayTok(t) ==
    \/ /\ Len(t) = 2
       /\ \/ t[1] = "3" /\ t[2] \in {"0", "1"}
          \/ t[1] \in {"1", "2"} /\ IsDecimalChar(t[2])
          \/ t[1] = "0" /\ t[2] \in NonZeroAscii
          \/ t[1] = " " /\ t[2] \in NonZeroAscii
    \/ /\ Len(t) = 1
       /\ t[1] \in NonZeroAscii

\* %m: 1[0-2]|0[1-9]|[1-9]
MonthTok(t) ==
    \/ /\ Len(t) = 2
       /\ \/ t[1] = "1" /\ t[2] \in {"0", "1", "2"}
          \/ t[1] = "0" /\ t[2] \in NonZeroAscii
    \/ /\ Len(t) = 1
       /\ t[1] \in NonZeroAscii

\* %Y: \d\d\d\d
YearTok(t) == Len(t) = 4 /\ \A i \in 1..4 : IsDecimalChar(t[i])

\* int() of a matched group: surrounding blanks are dropped
RECURSIVE IntOf(_)
IntOf(t) ==
    IF Len(t) = 0 THEN 0
    ELSE IF t[Len(t)] = " " THEN IntOf(SubSeq(t, 1, Len(t) - 1))
    ELSE 10 * IntOf(SubSeq(t, 1, Len(t) - 1)) + DigitVal(t[Len(t)])

\* the matches of the compiled format at the start of s, as <<day length,
\* month length>>: the day and month groups end at the next ".", so there is
\* at most one
FormatMatches(s) ==
    {nk \in {1, 2} \X {1, 2} :
        LET n == nk[1]
            k == nk[2]
        IN  /\ Len(s) >= n + k + 6
            /\ DayTok(SubSeq(s, 1, n))
            /\ s[n + 1] = "."
            /\ MonthTok(SubSeq(s, n + 2, n + 1 + k))
            /\ s[n + k + 2] = "."
            /\ YearTok(SubSeq(s, n + k + 3, n + k + 6))}

NoDate == [ok |-> FALSE, y |-> 0, m |-> 0, d |-> 0]

\* datetime.strptime(s, "%d.%m.%Y"): the date, or ok = FALSE for ValueError
\* (no match, unconverted data remains, or a day/year out of range)
Strptime(s) ==
    IF FormatMatches(s) = {} THEN NoDate
    ELSE LET nk == CHOOSE x \in FormatMatches(s) : TRUE
             n  == nk[1]
             k  == nk[2]
             d  == IntOf(SubSeq(s, 1, n))
             m  == IntOf(SubSeq(s, n + 2, n + 1 + k))
             y  == IntOf(SubSeq(s, n + k + 3, n + k + 6))
         IN  IF Len(s) # n + k + 6 THEN NoDate
             ELSE IF ~IsDate(y, m, d) THEN NoDate
             ELSE [ok |-> TRUE, y |-> y, m |-> m, d |-> d]

TwoDigits(n) == <<DigitChars[(n \div 10) + 1], DigitChars[(n % 10) + 1]>>

FourDigits(n) ==
    <<DigitChars[(n \div 1000) + 1], DigitChars[((n \div 100) % 10) + 1],
      DigitChars[((n \div 10) % 10) + 1], DigitChars[(n % 10) + 1]>>

\* AddressBook.date_to_string: strftime("%d.%m.%Y"), for years 1000..9999
date_to_string(dt) ==
    TwoDigits(dt.d) \o <<".">> \o TwoDigits(dt.m) \o <<".">> \o FourDigits(dt.y)

-----------------------------------------------------------------------------
(* Birthday *)

\* Birthday.__init__: the original string, or the DateValidationError raised
Birthday(value) ==
    IF Strptime(value).ok
    THEN [err |-> NoError, msg |-> "", value |-> value]
    ELSE [err |-> "DateValidationError",
          msg |-> "Invalid date (try using DD.MM.YYYY format)", value |-> <<>>]

-----------------------------------------------------------------------------
(* Record *)

NoBirthday == [set |-> FALSE, value |-> <<>>]

\* Record.__init__
Record(name) == [name |-> name, phones |-> <<>>, birthday |-> NoBirthday]

Ok(r) == [err |-> NoError, msg |-> "", rec |-> r]

Raise(e, m, r) == [err |-> e, msg |-> m, rec |-> r]

\* Record.find_phone: whether a phone with this value is found
find_phone(r, phone) == \E i \in 1..Len(r.phones) : r.phones[i] = phone

\* add_phone without the look for the value among the phones
add_phone_appends(r, phone) ==
    LET p == Phone(phone)
    IN  IF p.err # NoError THEN Raise(p.err, p.msg, r)
        ELSE Ok([r EXCEPT !.phones = Append(r.phones, p.value)])

\* Record.add_phone
add_phone(r, phone) ==
    LET p == Phone(phone)
    IN  IF p.err # NoError THEN Raise(p.err, p.msg, r)
        ELSE IF p.value \notin Range(r.phones)
        THEN Ok([r EXCEPT !.phones = Append(r.phones, p.value)])
        ELSE Ok(r)

\* Record.remove_phone
remove_phone(r, phone) ==
    Ok([r EXCEPT !.phones = SelectSeq(r.phones, LAMBDA ph : ph # phone)])

\* Record.edit_phone
edit_phone(r, old_phone, new_phone) ==
    IF find_phone(r, old_phone)
    THEN LET added == add_phone(r, new_phone)
         IN  IF added.err # NoError THEN added
             ELSE remove_phone(added.rec, old_phone)
    ELSE Raise("MissingPhoneError",
               "Phone number to be edited is missing from the list", r)

\* Record.add_birthday
rec_add_birthday(r, birthday) ==
    LET b == Birthday(birthday)
    IN  IF b.err # NoError THEN Raise(b.err, b.msg, r)
        ELSE Ok([r EXCEPT !.birthday = [set |-> TRUE, value |-> b.value]])


-----------------------------------------------------------------------------
(* Inputs *)

Base9 == <<"0", "5", "0", "1", "2", "3", "4", "5", "6">>

\* well-formed phone numbers: Base9 followed by one more ASCII digit
ValidPhones == {Append(Base9, DigitChars[i]) : i \in 1..NumPhones}

PhoneTails == {"0", "1", "9", "a", " ", "+", "ar4", "sup2"}

\* strings handed to Phone: empty, 9, 10 and 11 characters long, with a
\* letter, a blank, a sign or a non-ASCII digit first, last or next to last
PhoneInputs ==
    {<<>>, Base9}
      \cup ValidPhones
      \cup {Append(Base9, c) : c \in PhoneTails}
      \cup {<<c>> \o Base9 : c \in PhoneTails}
      \cup {Base9 \o <<c, "7">> : c \in PhoneTails}

DayTexts ==
    {<<"1", "5">>, <<"0", "1">>, <<"1">>, <<" ", "1">>, <<"2", "9">>,
     <<"3", "1">>, <<"3", "2">>, <<"0", "0">>, <<"2", "ar4">>, <<"1", "a">>,
     <<"0", "1", "5">>}

MonthTexts ==
    {<<"0", "2">>, <<"2">>, <<"0", "6">>, <<"1", "2">>, <<"1", "3">>,
     <<"0", "0">>, <<"0", "0", "6">>}

YearTexts ==
    {<<"2", "0", "2", "4">>, <<"2", "0", "2", "3">>, <<"1", "9", "9", "0">>,
     <<"1", "9", "0", "0">>, <<"2", "0", "0", "0">>, <<"0", "0", "0", "0">>,
     <<"2", "0", "2", "ar4">>, <<"2", "4">>, <<"0", "2", "0", "2", "4">>,
     <<"2", "0", "2", "4", " ">>, <<"2", "0", "2", "sup2">>}

Separators == {".", "-", "/"}

\* strings handed to Birthday: day, month and year texts joined by separators
BirthdayInputs ==
    {<<>>}
      \cup {dt \o <<s1>> \o mt \o <<s2>> \o yt :
              dt \in DayTexts, s1 \in Separators, mt \in MonthTexts,
              s2 \in {"."}, yt \in YearTexts}
      \cup {dt \o <<".">> \o mt \o <<s2>> \o yt :
              dt \in DayTexts, mt \in MonthTexts,
              s2 \in Separators, yt \in {<<"2", "0", "2", "4">>}}

-----------------------------------------------------------------------------
(* Idle values: each specification leaves the other parts' variables alone *)

NoCall == [op |-> "none", a |-> <<>>, b |-> <<>>]

NoOut == [msg |-> "", items |-> <<>>]

NoClock == [y |-> 0, m |-> 0, d |-> 0]

NoFile == [exists |-> FALSE, book |-> <<>>]

NotBuilt == [err |-> "pending", msg |-> "", value |-> <<>>]

FieldIdle == fkind = "none" /\ farg = <<>> /\ fres = NotBuilt

RecordIdle ==
    /\ rec = Record(<<"A">>)
    /\ rpre = Record(<<"A">>)
    /\ rcall = NoCall
    /\ rerr = NoError

SessionIdle ==
    /\ data = <<>>
    /\ before = <<>>
    /\ line = <<>>
    /\ clock = NoClock
    /\ out = NoOut
    /\ pc = "prompt"
    /\ saved = NoFile

-----------------------------------------------------------------------------
(* Field construction on its own: the argument is drawn at the start, the   *)
(* constructor is applied to it once                                       *)

InitField ==
    /\ \/ fkind = "Phone" /\ farg \in PhoneInputs
       \/ fkind = "Birthday" /\ farg \in BirthdayInputs
    /\ fres = NotBuilt
    /\ RecordIdle
    /\ SessionIdle

\* Phone(farg)
NewPhone ==
    /\ fkind = "Phone"
    /\ fres = NotBuilt
    /\ fres' = Phone(farg)
    /\ UNCHANGED <<fkind, farg, recordVars, sessionVars>>

\* Birthday(farg)
NewBirthday ==
    /\ fkind = "Birthday"
    /\ fres = NotBuilt
    /\ fres' = Birthday(farg)
    /\ UNCHANGED <<fkind, farg, recordVars, sessionVars>>

NextField == NewPhone \/ NewBirthday

SpecField == InitField /\ [][NextField]_vars

-----------------------------------------------------------------------------
(* One Record and the calls of its methods *)

RecordPhoneInputs ==
    ValidPhones \cup {Base9, Append(Base9, "a"), Append(Base9, "sup2")}

RecordBirthdayInputs ==
    {<<"1", "5", ".", "0", "6", ".", "1", "9", "9", "0">>,
     <<"3", "1", ".", "0", "2", ".", "2", "0", "2", "4">>}

InitRecord == FieldIdle /\ RecordIdle /\ SessionIdle

Called(op, a, b, res) ==
    /\ rpre' = rec
    /\ rcall' = [op |-> op, a |-> a, b |-> b]
    /\ rerr' = res.err
    /\ rec' = res.rec
    /\ UNCHANGED <<fieldVars, sessionVars>>

CallAddPhone ==
    \E phone \in RecordPhoneInputs :
        Called("add_phone", phone, <<>>, add_phone(rec, phone))

CallRemovePhone ==
    \E phone \in RecordPhoneInputs :
        Called("remove_phone", phone, <<>>, remove_phone(rec, phone))

CallEditPhone ==
    \E old_phone \in RecordPhoneInputs, new_phone \in RecordPhoneInputs :
        Called("edit_phone", old_phone, new_phone,
               edit_phone(rec, old_phone, new_phone))

CallAddBirthday ==
    \E birthday \in RecordBirthdayInputs :
        Called("add_birthday", birthday, <<>>, rec_add_birthday(rec, birthday))

NextRecord ==
    CallAddPhone \/ CallRemovePhone \/ CallEditPhone \/ CallAddBirthday

SpecRecord == InitRecord /\ [][NextRecord]_vars


-----------------------------------------------------------------------------
(* AddressBook: an insertion-ordered mapping, a sequence of key/record pairs *)

Keys(d) == {d[i].key : i \in 1..Len(d)}

IndexOf(d, name) == CHOOSE i \in 1..Len(d) : d[i].key = name

\* book[name], for a name that is a key
Get(d, name) == d[IndexOf(d, name)].rec

\* the book with the record at key name replaced (the record object mutated)
Put(d, name, r) == [d EXCEPT ![IndexOf(d, name)].rec = r]

\* add_record keyed by the lower-cased name
add_record_lower_key(d, record) ==
    IF Lower(record.name) \in Keys(d)
    THEN Put(d, Lower(record.name), record)
    ELSE Append(d, [key |-> Lower(record.name), rec |-> record])

\* AddressBook.add_record: a key already there keeps its place
add_record(d, record) ==
    IF record.name \in Keys(d)
    THEN Put(d, record.name, record)
    ELSE Append(d, [key |-> record.name, rec |-> record])

\* AddressBook.find: whether a record is found
find(d, name) == name \in Keys(d)

\* AddressBook.delete
delete(d, name) ==
    IF name \in Keys(d) THEN SelectSeq(d, LAMBDA e : e.key # name) ELSE d

\* datetime.replace(year=...): ok = FALSE for the ValueError of 29 February
\* in a year that is not a leap year
ReplaceYear(dt, year) ==
    IF IsDate(year, dt.m, dt.d)
    THEN [ok |-> TRUE, y |-> year, m |-> dt.m, d |-> dt.d]
    ELSE NoDate

Date(r) == [y |-> r.y, m |-> r.m, d |-> r.d]

\* AddressBook.find_next_weekday
find_next_weekday(start_date, weekday) ==
    LET days_ahead == weekday - Weekday(start_date)
    IN  AddDays(start_date, IF days_ahead <= 0 THEN days_ahead + 7 ELSE days_ahead)

\* AddressBook.adjust_for_weekend
adjust_for_weekend(birthday) ==
    IF Weekday(birthday) >= 5 THEN find_next_weekday(birthday, 0) ELSE birthday

WindowDays == 7

\* one turn of the loop of get_upcoming_birthdays: what it appends for one
\* entry, or the ValueError it raises
UpcomingEntry(e, today) ==
    IF ~e.rec.birthday.set THEN [err |-> NoError, items |-> <<>>]
    ELSE
      LET birthday  == Strptime(e.rec.birthday.value)
          this_year == ReplaceYear(birthday, today.y)
          next_year == ReplaceYear(birthday, today.y + 1)
      IN  IF ~this_year.ok THEN [err |-> "ValueError", items |-> <<>>]
          ELSE
            LET passed == ToOrdinal(Date(this_year)) < ToOrdinal(today)
            IN  IF passed /\ ~next_year.ok
                THEN [err |-> "ValueError", items |-> <<>>]
                ELSE
                  LET occ  == IF passed THEN Date(next_year) ELSE Date(this_year)
                      diff == ToOrdinal(occ) - ToOrdinal(today)
                  IN  IF 0 <= diff /\ diff <= WindowDays
                      THEN [err |-> NoError,
                            items |-> <<[name |-> e.key,
                                         congratulation_date |->
                                           date_to_string(adjust_for_weekend(occ))]>>]
                      ELSE [err |-> NoError, items |-> <<>>]

\* AddressBook.get_upcoming_birthdays, from entry i on
RECURSIVE UpcomingFrom(_, _, _)
UpcomingFrom(d, today, i) ==
    IF i > Len(d) THEN [err |-> NoError, items |-> <<>>]
    ELSE LET one == UpcomingEntry(d[i], today)
         IN  IF one.err # NoError THEN one
             ELSE LET rest == UpcomingFrom(d, today, i + 1)
                  IN  IF rest.err # NoError THEN rest
                      ELSE [err |-> NoError, items |-> one.items \o rest.items]

get_upcoming_birthdays(d, today) == UpcomingFrom(d, today, 1)

-----------------------------------------------------------------------------
(* The command handlers, each under input_error *)

Say(d, msg) == [data |-> d, out |-> [msg |-> msg, items |-> <<>>]]

MsgValueError == "Invalid command format (name/phone missing)"
MsgIndexError == "Enter argument for the command please"
MsgKeyError   == "Contact doesn't exist"

\* the messages input_error returns for an exception it caught
ErrorMessages ==
    {MsgValueError, MsgIndexError, MsgKeyError,
     "Phone number must be 10 digits long",
     "Phone number must contain digits only",
     "Phone number to be edited is missing from the list",
     "Invalid date (try using DD.MM.YYYY format)"}

\* add_contact as its docstring has it: an existing contact is overwritten
add_contact_overwrites(args, d) ==
    IF Len(args) < 2 THEN Say(d, MsgValueError)
    ELSE LET r == add_phone(Record(args[1]), args[2])
         IN  IF r.err # NoError THEN Say(d, r.msg)
             ELSE Say(add_record(d, r.rec), "Contact/phone added")

\* add_contact
add_contact(args, d) ==
    IF Len(args) < 2 THEN Say(d, MsgValueError)
    ELSE
      LET name  == args[1]
          phone == args[2]
      IN  IF find(d, name)
          THEN LET r == add_phone(Get(d, name), phone)
               IN  IF r.err # NoError THEN Say(d, r.msg)
                   ELSE Say(Put(d, name, r.rec), "Contact/phone added")
          ELSE LET r == add_phone(Record(name), phone)
               IN  IF r.err # NoError THEN Say(d, r.msg)
                   ELSE Say(add_record(d, r.rec), "Contact/phone added")

\* change_contact
change_contact(args, d) ==
    IF Len(args) < 3 THEN Say(d, MsgValueError)
    ELSE
      LET name == args[1]
      IN  IF ~find(d, name) THEN Say(d, MsgKeyError)
          ELSE LET r == edit_phone(Get(d, name), args[2], args[3])
               IN  IF r.err # NoError THEN Say(d, r.msg)
                   ELSE Say(Put(d, name, r.rec), "phone changed")

\* show_phone
show_phone(args, d) ==
    IF Len(args) < 1 THEN Say(d, MsgIndexError)
    ELSE IF args[1] \notin Keys(d) THEN Say(d, MsgKeyError)
    ELSE [data |-> d,
          out |-> [msg |-> "phones", items |-> Get(d, args[1]).phones]]

\* add_birthday
add_birthday(args, d) ==
    IF Len(args) < 2 THEN Say(d, MsgValueError)
    ELSE
      LET name == args[1]
      IN  IF name \notin Keys(d) THEN Say(d, MsgKeyError)
          ELSE LET r == rec_add_birthday(Get(d, name), args[2])
               IN  IF r.err # NoError THEN Say(d, r.msg)
                   ELSE Say(Put(d, name, r.rec), "Birthday added")

\* show_birthday
show_birthday(args, d) ==
    IF Len(args) < 1 THEN Say(d, MsgIndexError)
    ELSE IF find(d, args[1])
    THEN IF Get(d, args[1]).birthday.set
         THEN [data |-> d,
               out |-> [msg |-> "birthday",
                        items |-> <<Get(d, args[1]).birthday.value>>]]
         ELSE Say(d, "There is no birthday yet")
    ELSE Say(d, "Contact <name> doesn't exist")

\* birthdays
birthdays(d, today) ==
    LET r == get_upcoming_birthdays(d, today)
    IN  IF r.err # NoError THEN Say(d, MsgValueError)
        ELSE IF r.items # <<>>
        THEN [data |-> d,
              out |-> [msg |-> "Don't forget to congratulate:", items |-> r.items]]
        ELSE Say(d, "Congratulation list is empty")

\* show_all_contacts
show_all_contacts(d) ==
    IF Len(d) = 0 THEN Say(d, "There are no contacts yet")
    ELSE [data |-> d, out |-> [msg |-> "all", items |-> d]]


-----------------------------------------------------------------------------
(* main: read a line, parse it, dispatch on the command word, print *)

W_exit          == <<"e", "x", "i", "t">>
W_close         == <<"c", "l", "o", "s", "e">>
W_hello         == <<"h", "e", "l", "l", "o">>
W_help          == <<"h", "e", "l", "p">>
W_add           == <<"a", "d", "d">>
W_change        == <<"c", "h", "a", "n", "g", "e">>
W_phone         == <<"p", "h", "o", "n", "e">>
W_add_birthday  == <<"a", "d", "d", "-", "b", "i", "r", "t", "h", "d", "a", "y">>
W_show_birthday == <<"s", "h", "o", "w", "-", "b", "i", "r", "t", "h", "d", "a", "y">>
W_birthdays     == <<"b", "i", "r", "t", "h", "d", "a", "y", "s">>
W_all           == <<"a", "l", "l">>

KnownCommands ==
    {W_exit, W_close, W_hello, W_help, W_add, W_change, W_phone,
     W_add_birthday, W_show_birthday, W_birthdays, W_all}

\* parse_input, for a line with at least one token: the command word
Command(tokens) == Lower(tokens[1])

\* parse_input: the arguments
Args(tokens) == SubSeq(tokens, 2, Len(tokens))

Names == {<<"A">>, <<"B">>}

SessionPhones == ValidPhones \cup {Base9}

SessionBirthdays ==
    {<<"1", "5", ".", "0", "6", ".", "1", "9", "9", "0">>,
     <<"2", "9", ".", "0", "2", ".", "2", "0", "0", "0">>,
     <<"3", "1", ".", "0", "2", ".", "2", "0", "2", "4">>}

\* the token lists user_input.split() gives for the lines typed
SessionLines ==
    {<<>>}
      \cup {<<w>> : w \in KnownCommands \cup {<<"E", "X", "I", "T">>, <<"d", "e", "l">>}}
      \cup {<<w, n>> : w \in {W_add, W_change, W_phone, W_add_birthday, W_show_birthday,
                              <<"A", "d", "d">>},
                       n \in Names}
      \cup {<<W_add, n, p>> : n \in Names, p \in SessionPhones}
      \cup {<<W_change, n, p, q>> : n \in Names, p \in SessionPhones,
                                    q \in SessionPhones}
      \cup {<<W_add_birthday, n, b>> : n \in Names, b \in SessionBirthdays}

\* the dates datetime.today() gives
Todays ==
    {[y |-> 2024, m |-> 6, d |-> 10], [y |-> 2024, m |-> 6, d |-> 8],
     [y |-> 2024, m |-> 6, d |-> 7], [y |-> 2024, m |-> 6, d |-> 16],
     [y |-> 2023, m |-> 6, d |-> 10], [y |-> 2025, m |-> 6, d |-> 10],
     [y |-> 2024, m |-> 2, d |-> 25], [y |-> 2024, m |-> 3, d |-> 1]}

\* load_data: an empty AddressBook when there is no file
load_data(file) == IF file.exists THEN file.book ELSE <<>>

\* save_data
save_data(d) == [exists |-> TRUE, book |-> d]

Init ==
    /\ FieldIdle
    /\ RecordIdle
    /\ data = load_data(NoFile)
    /\ before = <<>>
    /\ line = <<>>
    /\ clock = NoClock
    /\ out = NoOut
    /\ pc = "prompt"
    /\ saved = NoFile

\* one turn of the loop that prints a handler's result
Printed(tokens, r, today) ==
    /\ line' = tokens
    /\ before' = data
    /\ data' = r.data
    /\ out' = r.out
    /\ clock' = today
    /\ pc' = "printed"
    /\ UNCHANGED <<saved, fieldVars, recordVars>>

Reads(tokens, word) ==
    /\ pc = "prompt"
    /\ Len(tokens) > 0
    /\ Command(tokens) \notin {W_exit, W_close}
    /\ Command(tokens) = word

\* a line without tokens: parse_input raises ValueError outside any handler
EmptyLine ==
    \E tokens \in SessionLines :
        /\ pc = "prompt"
        /\ Len(tokens) = 0
        /\ line' = tokens
        /\ before' = data
        /\ pc' = "crashed"
        /\ UNCHANGED <<data, out, clock, saved, fieldVars, recordVars>>

ExitOrClose ==
    \E tokens \in SessionLines :
        /\ pc = "prompt"
        /\ Len(tokens) > 0
        /\ Command(tokens) \in {W_exit, W_close}
        /\ saved' = save_data(data)
        /\ line' = tokens
        /\ before' = data
        /\ out' = [msg |-> "GOODBYE!", items |-> <<>>]
        /\ pc' = "done"
        /\ UNCHANGED <<data, clock, fieldVars, recordVars>>

Hello ==
    \E tokens \in SessionLines :
        /\ Reads(tokens, W_hello)
        /\ Printed(tokens, Say(data, "How can I help you?"), NoClock)

Help ==
    \E tokens \in SessionLines :
        /\ Reads(tokens, W_help)
        /\ Printed(tokens, Say(data, "command list"), NoClock)

AddContact ==
    \E tokens \in SessionLines :
        /\ Reads(tokens, W_add)
        /\ Printed(tokens, add_contact(Args(tokens), data), NoClock)

ChangeContact ==
    \E tokens \in SessionLines :
        /\ Reads(tokens, W_change)
        /\ Printed(tokens, change_contact(Args(tokens), data), NoClock)

ShowPhone ==
    \E tokens \in SessionLines :
        /\ Reads(tokens, W_phone)
        /\ Printed(tokens, show_phone(Args(tokens), data), NoClock)

AddBirthday ==
    \E tokens \in SessionLines :
        /\ Reads(tokens, W_add_birthday)
        /\ Printed(tokens, add_birthday(Args(tokens), data), NoClock)

ShowBirthday ==
    \E tokens \in SessionLines :
        /\ Reads(tokens, W_show_birthday)
        /\ Printed(tokens, show_birthday(Args(tokens), data), NoClock)

Birthdays ==
    \E tokens \in SessionLines, today \in Todays :
        /\ Reads(tokens, W_birthdays)
        /\ Printed(tokens, birthdays(data, today), today)

ShowAll ==
    \E tokens \in SessionLines :
        /\ Reads(tokens, W_all)
        /\ Printed(tokens, show_all_contacts(data), NoClock)

InvalidCommand ==
    \E tokens \in SessionLines :
        /\ pc = "prompt"
        /\ Len(tokens) > 0
        /\ Command(tokens) \notin KnownCommands
        /\ Printed(tokens, Say(data, "Invalid command"), NoClock)

\* the loop goes back to input(); what the last turn read and printed is dropped
NextPrompt ==
    /\ pc \in {"printed", "returned"}
    /\ pc' = "prompt"
    /\ line' = <<>>
    /\ before' = <<>>
    /\ out' = NoOut
    /\ clock' = NoClock
    /\ rcall' = NoCall
    /\ UNCHANGED <<data, saved, fieldVars, rec, rpre, rerr>>

\* AddressBook.add_record called with a fresh Record
CallAddRecord ==
    \E name \in Names :
        /\ pc = "prompt"
        /\ rcall' = [op |-> "add_record", a |-> name, b |-> <<>>]
        /\ before' = data
        /\ data' = add_record(data, Record(name))
        /\ pc' = "returned"
        /\ UNCHANGED <<line, out, clock, saved, fieldVars, rec, rpre, rerr>>

\* AddressBook.delete
CallDelete ==
    \E name \in Names :
        /\ pc = "prompt"
        /\ rcall' = [op |-> "delete", a |-> name, b |-> <<>>]
        /\ before' = data
        /\ data' = delete(data, name)
        /\ pc' = "returned"
        /\ UNCHANGED <<line, out, clock, saved, fieldVars, rec, rpre, rerr>>

Next ==
    \/ EmptyLine \/ ExitOrClose \/ Hello \/ Help \/ AddContact \/ ChangeContact
    \/ ShowPhone \/ AddBirthday \/ ShowBirthday \/ Birthdays \/ ShowAll
    \/ InvalidCommand \/ NextPrompt \/ CallAddRecord \/ CallDelete

Spec == Init /\ [][Next]_vars


-----------------------------------------------------------------------------
(* What the specification of the program says, in its own terms *)

\* a phone as the data model gives it: exactly 10 characters, each a decimal
\* digit (read widely: any Unicode decimal digit counts)
IsTenDecimalDigits(s) == Len(s) = 10 /\ \A i \in 1..Len(s) : IsDecimalChar(s[i])

\* DD.MM.YYYY: two digits, a dot, two digits, a dot, four digits, naming a date
\* of the calendar (read widely: a second digit may be any decimal digit)
IsDDMMYYYY(s) ==
    /\ Len(s) = 10
    /\ s[3] = "." /\ s[6] = "."
    /\ \A i \in {1, 4} : s[i] \in AsciiDigits
    /\ \A i \in {2, 5, 7, 8, 9, 10} : IsDecimalChar(s[i])
    /\ IsDate(IntOf(SubSeq(s, 7, 10)), IntOf(SubSeq(s, 4, 5)), IntOf(SubSeq(s, 1, 2)))

NoDuplicates(ps) == \A i, j \in 1..Len(ps) : ps[i] = ps[j] => i = j

KeySeq(d) == [i \in 1..Len(d) |-> d[i].key]

\* the days of the window [today, today + 7] on which the birthday b falls
DaysAhead(b, today) ==
    {k \in 0..7 : LET day == AddDays(today, k)
                  IN  day.d = b.d /\ day.m = b.m}

\* the occurrence itself on Monday to Friday, else the first Monday after it
CongratulationDay(today, k) ==
    LET j == CHOOSE i \in k..(k + 2) :
                 /\ Weekday(AddDays(today, i)) < 5
                 /\ \A h \in k..(i - 1) : Weekday(AddDays(today, h)) >= 5
    IN  AddDays(today, j)

\* the entries the upcoming-birthdays query is to return, in directory order
RECURSIVE ExpectedFrom(_, _, _)
ExpectedFrom(d, today, i) ==
    IF i > Len(d) THEN <<>>
    ELSE LET r    == d[i].rec
             b    == Strptime(r.birthday.value)
             here == IF r.birthday.set /\ DaysAhead(b, today) # {}
                     THEN LET k == CHOOSE x \in DaysAhead(b, today) : TRUE
                          IN  <<[name |-> r.name,
                                 congratulation_date |->
                                   date_to_string(CongratulationDay(today, k))]>>
                     ELSE <<>>
         IN  here \o ExpectedFrom(d, today, i + 1)

ExpectedUpcoming(d, today) == ExpectedFrom(d, today, 1)

\* a line has been read and handled
Handled(word) == pc = "printed" /\ Len(line) > 0 /\ Command(line) = word

-----------------------------------------------------------------------------
(* Claims *)

\* C1: Phone construction succeeds, storing its input, exactly for the strings
\* of 10 decimal digits, and fails with PhoneValidationError for every other
\* string.
C1_PhoneConstruction ==
    (fkind = "Phone" /\ fres # NotBuilt) =>
        IF IsTenDecimalDigits(farg)
        THEN fres.err = NoError /\ fres.value = farg
        ELSE fres.err = "PhoneValidationError"

\* C2: Birthday construction succeeds, storing its input, exactly for the
\* strings of the form DD.MM.YYYY that name a real date, and fails with
\* DateValidationError for every other string.
C2_BirthdayConstruction ==
    (fkind = "Birthday" /\ fres # NotBuilt) =>
        IF IsDDMMYYYY(farg)
        THEN fres.err = NoError /\ fres.value = farg
        ELSE fres.err = "DateValidationError"

\* C3: whatever line is read, unless its command word is exit or close, the
\* loop prints a result and goes on; it ends only on exit or close, and has
\* saved the directory when it ends.
C3_SessionContinues ==
    /\ (pc # "prompt" /\ rcall = NoCall
          /\ (Len(line) = 0 \/ Command(line) \notin {W_exit, W_close}))
       => (pc = "printed" /\ out # NoOut)
    /\ pc \in {"done", "crashed"} => saved = save_data(data)

\* C4: the birthdays query returns, in directory order, exactly the records
\* whose birthday falls 0 to 7 days ahead of today, each with the occurrence
\* itself (Monday to Friday) or the first Monday after it (Saturday, Sunday)
\* as DD.MM.YYYY.
C4_UpcomingBirthdays ==
    Handled(W_birthdays) =>
        /\ out.msg \in {"Don't forget to congratulate:", "Congratulation list is empty"}
        /\ out.items = ExpectedUpcoming(data, clock)

\* C5: an edit_phone whose old value is missing fails with MissingPhoneError,
\* one whose old value is present and whose new value is no valid phone fails
\* with PhoneValidationError, and in both cases the Record is as it was.
C5_FailingEditLeavesRecord ==
    rcall.op = "edit_phone" =>
        /\ rcall.a \notin Range(rpre.phones)
              => (rerr = "MissingPhoneError" /\ rec = rpre)
        /\ (rcall.a \in Range(rpre.phones) /\ ~IsTenDecimalDigits(rcall.b))
              => (rerr = "PhoneValidationError" /\ rec = rpre)

C7_NoDuplicatePhones ==
    /\ NoDuplicates(rec.phones)
    /\ (rcall.op = "add_phone" /\ rcall.a \in Range(rpre.phones))
          => rec.phones = rpre.phones

C7_Witness ==
    /\ rcall.op = "add_phone"
    /\ rcall.a \in Range(rpre.phones)
    /\ rerr = NoError
    /\ Len(rpre.phones) >= 2

\* C8: every key of the directory is the name of the Record it maps to, after
\* any commands and any add_record and delete calls, and the Record at a key
\* keeps its name.
C8_KeyIsName ==
    /\ \A i \in 1..Len(data) : data[i].key = data[i].rec.name
    /\ \A i, j \in 1..Len(data) : data[i].key = data[j].key => i = j
    /\ pc \in {"printed", "returned"} =>
          \A n \in Keys(before) \cap Keys(data) : Get(data, n).name = Get(before, n).name

C8_Witness ==
    /\ pc = "returned"
    /\ rcall.op = "add_record"
    /\ rcall.a \in Keys(before)
    /\ Len(Get(before, rcall.a).phones) >= 1
    /\ Len(data) = 2

\* C9: change on a contact holding the old phone, with a valid new phone,
\* reports the phone as changed and the contact's phones then contain the
\* new phone (the new phone may differ from the old one, equal it, or be
\* another phone of the contact).
C9_EditReplacesPhone ==
    (/\ Handled(W_change) /\ Len(line) >= 4
     /\ line[2] \in Keys(before)
     /\ line[3] \in Range(Get(before, line[2]).phones)
     /\ IsTenDecimalDigits(line[4]))
    => /\ out.msg = "phone changed"
       /\ line[4] \in Range(Get(data, line[2]).phones)

\* C10: with every birthday of the directory one that Birthday accepted, the
\* birthdays command prints the congratulation list or says the list is
\* empty, never an error message.
C10_UpcomingTotal ==
    (/\ Handled(W_birthdays)
     /\ \A i \in 1..Len(before) :
           before[i].rec.birthday.set
              => Birthday(before[i].rec.birthday.value).err = NoError)
    => /\ out.msg \notin ErrorMessages
       /\ get_upcoming_birthdays(before, clock).err = NoError


=============================================================================
